---- MODULE Spec2Model ----
(***************************************************************************)
(* Learning-management backend: the enrollment state machine, the          *)
(* learning-record aggregation that feeds it and the role checks of the    *)
(* request handlers, as implemented by the API routes                      *)
(*   src/app/api/enrollments/route.ts, src/app/api/enrollments/[id]/route.ts *)
(*   src/app/api/learning-records/route.ts, .../learning-records/[id]/route.ts *)
(*   src/app/api/courses/[id]/route.ts                                     *)
(* The persistent store (Supabase tables) is the state; every handler is   *)
(* one action.  Request bodies are records that hold exactly the fields    *)
(* the client sent, so `f \in DOMAIN req` is the code's `req.f !== undefined`.*)
(***************************************************************************)
EXTENDS Integers, FiniteSets, Sequences, TLC

\* ------------------------------------------------------------------ bounds
MaxEnrollments == 2      \* enrollment rows the store may hold
MaxRecords == 2          \* learning_records rows created over a run
MaxNow == 2              \* last tick of the service clock

\* --------------------------------------------------------------- constants
NULL == -99              \* a NULL column of a row (number | null, string | null)
TicksPerDay == 2         \* clock ticks per calendar day
MinPercentage == 0
MaxPercentage == 100

\* ------------------------------------------------------------------ domains
Admins == {"adm"}
Learners == {"l1", "l2"}
UserIds == Admins \cup Learners
UnknownUser == "nobody"                 \* an id no users row has
CourseIds == {"c1"}
UnknownCourse == "c0"                   \* an id no courses row has
EnrollmentIds == 1..MaxEnrollments
RecordIds == 1..MaxRecords
Times == 0..MaxNow
Percentages == {MinPercentage, 50, MaxPercentage}

enrollmentStatusSchema == {"assigned", "in_progress", "completed", "cancelled"}

\* The users table: role of each user row (roles are not changed here).
RoleOf(u) == IF u \in Admins THEN "admin" ELSE "learner"

\* The sessions the identity provider can hand to a handler.
Sessions == {[id |-> u, role |-> RoleOf(u)] : u \in UserIds}
AdminSessionsOnly == {[id |-> u, role |-> "admin"] : u \in Admins}

\* a role check that lets every session through
EveryoneAdmin(session) == TRUE

isAdmin(session) == session.role = "admin"

\* ------------------------------------------------------------------- state
VARIABLES
    enrollments,        \* enrollment id -> row, or NoRow
    learning_records,   \* record id -> row, or NoRow
    courses,            \* course id -> [is_active]
    now,                \* the service clock (new Date())
    proc                \* the in-flight POST /api/learning-records handlers

vars == <<enrollments, learning_records, courses, now, proc>>

NoRow == [absent |-> TRUE]

\* new Date(x).toISOString().split('T')[0]: the calendar date of an instant
DateOf(t) == t \div TicksPerDay

\* ----------------------------------------------------------- store queries
RowsOf(table) == {i \in DOMAIN table : table[i] # NoRow}
EnrollmentRows == RowsOf(enrollments)
RecordRows == RowsOf(learning_records)

\* select ... from learning_records where enrollment_id = e
RecordsOf(records, e) == {r \in RowsOf(records) : records[r].enrollment_id = e}

\* a lookup that never finds a row
NoneFound(S) == {}

\* .single(): the row when exactly one row matches, else no data
Single(S) == IF Cardinality(S) = 1 THEN S ELSE {}

\* the id the store gives the next inserted row
FreshId(table) ==
    CHOOSE i \in DOMAIN table \ RowsOf(table) :
        \A j \in DOMAIN table \ RowsOf(table) : i <= j

\* .not("session_duration_minutes", "is", null)
WithDuration(records, S) == {r \in S : records[r].session_duration_minutes # NULL}

RECURSIVE SumMinutes(_, _)
\* reduce((sum, record) => sum + (record.session_duration_minutes || 0), 0)
SumMinutes(records, S) ==
    IF S = {} THEN 0
    ELSE LET r == CHOOSE x \in S : TRUE
             d == records[r].session_duration_minutes
         IN (IF d = NULL THEN 0 ELSE d) + SumMinutes(records, S \ {r})

\* Math.round((endTime - startTime) / (1000 * 60)), instants in half minutes:
\* Math.round rounds a half towards +infinity.
DurationBetween(startTime, endTime) == ((endTime - startTime) + 1) \div 2

\* updateData: the columns an update writes.  Set(d, f, v) is `d[f] = v`.
Set(d, f, v) == [x \in DOMAIN d \cup {f} |-> IF x = f THEN v ELSE d[x]]
NoColumns == [x \in {} |-> NULL]
Has(req, f) == f \in DOMAIN req

\* an optional request field: absent, or present with a value of S
Optional(f, S) == {NoColumns} \cup {f :> v : v \in S}

\* .update(updateData).eq("id", id): the row with the written columns replaced
Updated(row, updateData) ==
    [f \in DOMAIN row |-> IF f \in DOMAIN updateData THEN updateData[f] ELSE row[f]]

\* What a handler does: the response status and the tables it leaves.
Outcome(status, e, r) == [status |-> status, enrollments |-> e, learning_records |-> r]
Reject(status) == Outcome(status, enrollments, learning_records)

\* -------------------------------------------------------------------- Init
IdleProc == [pc |-> "idle"]
Procs == {"p1", "p2"}

Init ==
    /\ enrollments = [e \in EnrollmentIds |-> NoRow]
    /\ learning_records = [r \in RecordIds |-> NoRow]
    /\ courses = [c \in CourseIds |-> [is_active |-> TRUE]]
    /\ now = 0
    /\ proc = [p \in Procs |-> IdleProc]

\* The handler's outcome becomes the store.
Commit(out) ==
    /\ enrollments' = out.enrollments
    /\ learning_records' = out.learning_records
    /\ UNCHANGED <<courses, now, proc>>

\* The clock advances between requests.
Tick ==
    /\ now < MaxNow
    /\ now' = now + 1
    /\ UNCHANGED <<enrollments, learning_records, courses, proc>>

\* ------------------------------------------------ lib/auth-helpers.ts
\* a null session: nobody is signed in
NoSession == [anonymous |-> TRUE]

\* !!session?.user
isAuthenticated(session) == session # NoSession

\* the access check that looks at the owner only
OwnerOnly(resourceUserId, session, serverSession) ==
    LET currentSession == IF session # NoSession THEN session ELSE serverSession
    IN isAuthenticated(currentSession) /\ currentSession.id = resourceUserId

\* `session` is the argument, `serverSession` what getServerSession() returns
canAccessResource(resourceUserId, session, serverSession) ==
    LET currentSession == IF session # NoSession THEN session ELSE serverSession
    IN IF ~isAuthenticated(currentSession) THEN FALSE
       ELSE IF isAdmin(currentSession) THEN TRUE
       ELSE currentSession.id = resourceUserId

\* what the enrollment lookup of canAccessCourse can do
Lookups == {"ok", "error", "throws"}

\* lines 120-132: `lookup` is the fate of the store call: it returns rows,
\* returns an error, or throws
canAccessCourse(courseId, session, serverSession, lookup) ==
    LET currentSession == IF session # NoSession THEN session ELSE serverSession
    IN IF ~isAuthenticated(currentSession) THEN FALSE
       ELSE IF isAdmin(currentSession) THEN TRUE
       ELSE IF lookup # "ok" THEN FALSE
       ELSE Single({e \in EnrollmentRows :
                      /\ enrollments[e].course_id = courseId
                      /\ enrollments[e].learner_id = currentSession.id}) # {}

\* a role check that lets every session through
AnyRole(session, role) == TRUE

\* lines 30-32: session?.user?.role === role
hasRole(session, role) == session # NoSession /\ session.role = role

\* what getServerSession() gives when auth() throws, and what a wrapped
\* handler gives when it throws before it has written anything
SessionFails == [fails |-> TRUE]
Thrown == [thrown |-> TRUE]

\* a response built by withAuth itself: the handler was not called
NotInvoked(status) == [invoked |-> FALSE] @@ Reject(status)

\* lines 171-200: `handler` maps the session it is given to what it does
withAuth(handler, options, serverSession) ==
    IF serverSession = SessionFails THEN NotInvoked(500)
    ELSE IF ~isAuthenticated(serverSession) THEN NotInvoked(401)
    ELSE IF Has(options, "requireRole") /\ ~hasRole(serverSession, options.requireRole)
    THEN NotInvoked(403)
    ELSE IF handler[serverSession] = Thrown THEN [invoked |-> TRUE] @@ Reject(500)
    ELSE [invoked |-> TRUE] @@ handler[serverSession]

\* lines 205-209
withAdminAuth(handler, serverSession) ==
    withAuth(handler, [requireRole |-> "admin"], serverSession)

\* A caller that is not in the middle of a request calls a helper and keeps
\* what it returned.
Resting(p) == proc[p].pc \in {"idle", "done", "returned"}

CallCanAccessResource(p, resourceUserId, session, serverSession) ==
    /\ Resting(p)
    /\ proc' = [proc EXCEPT ![p] =
                  [pc |-> "returned", fn |-> "canAccessResource",
                   resourceUserId |-> resourceUserId,
                   session |-> session, serverSession |-> serverSession,
                   result |-> canAccessResource(resourceUserId, session, serverSession)]]
    /\ UNCHANGED <<enrollments, learning_records, courses, now>>

CallCanAccessCourse(p, courseId, session, serverSession, lookup) ==
    /\ Resting(p)
    /\ proc' = [proc EXCEPT ![p] =
                  [pc |-> "returned", fn |-> "canAccessCourse",
                   courseId |-> courseId, lookup |-> lookup,
                   session |-> session, serverSession |-> serverSession,
                   result |-> canAccessCourse(courseId, session, serverSession, lookup)]]
    /\ UNCHANGED <<enrollments, learning_records, courses, now>>

\* ------------------------------------------------- PUT /api/courses/[id]
CourseUpdateRequests == {[is_active |-> b] : b \in BOOLEAN}

PutCourse(session, courseId, req) ==
    /\ isAdmin(session)
    /\ courseId \in CourseIds
    /\ courses' = [courses EXCEPT ![courseId].is_active = req.is_active]
    /\ UNCHANGED <<enrollments, learning_records, now, proc>>

\* ------------------------------------------------- POST /api/enrollments
\* enrollmentCreateSchema: status defaults to "assigned"
enrollmentCreateSchema(req) ==
    IF Has(req, "status") THEN req ELSE Set(req, "status", "assigned")

\* the row an insert without progress_percentage, started_at, completed_at gives
DefaultProgress == 0

InsertedEnrollment(validatedData) ==
    [learner_id |-> validatedData.learner_id,
     course_id |-> validatedData.course_id,
     status |-> validatedData.status,
     progress_percentage |-> DefaultProgress,
     started_at |-> NULL,
     completed_at |-> NULL]

PostEnrollmentHandler(session, req) ==
    LET validatedData == enrollmentCreateSchema(req)
        existingEnrollment ==
            Single({e \in EnrollmentRows :
                      /\ enrollments[e].learner_id = validatedData.learner_id
                      /\ enrollments[e].course_id = validatedData.course_id})
    IN
    IF ~isAdmin(session) THEN Reject(403)
    ELSE IF validatedData.learner_id \notin UserIds THEN Reject(404)
    ELSE IF RoleOf(validatedData.learner_id) # "learner" THEN Reject(400)
    ELSE IF validatedData.course_id \notin CourseIds THEN Reject(404)
    ELSE IF ~courses[validatedData.course_id].is_active THEN Reject(400)
    ELSE IF existingEnrollment # {} THEN Reject(409)
    ELSE Outcome(201,
                 [enrollments EXCEPT ![FreshId(enrollments)] =
                    InsertedEnrollment(validatedData)],
                 learning_records)

PostEnrollment(session, req) ==
    /\ EnrollmentRows # EnrollmentIds
    /\ Commit(PostEnrollmentHandler(session, req))

\* ---------------------------------------------- PUT /api/enrollments/[id]
\* lines 139-154: an admin writes every field sent
AdminEnrollmentUpdate(validatedData) ==
    LET d1 == IF Has(validatedData, "progress_percentage")
              THEN Set(NoColumns, "progress_percentage", validatedData.progress_percentage)
              ELSE NoColumns
        d2 == IF Has(validatedData, "status")
              THEN Set(d1, "status", validatedData.status) ELSE d1
        d3 == IF Has(validatedData, "started_at")
              THEN Set(d2, "started_at", validatedData.started_at) ELSE d2
        d4 == IF Has(validatedData, "completed_at")
              THEN Set(d3, "completed_at", validatedData.completed_at) ELSE d3
    IN d4

\* a learner given the admin's free update
LearnerUpdateUnrestricted(existingEnrollment, validatedData, t) ==
    AdminEnrollmentUpdate(validatedData)

\* lines 155-192: the restricted update of a learner
LearnerEnrollmentUpdate(existingEnrollment, validatedData, t) ==
    LET sent100 == /\ Has(validatedData, "progress_percentage")
                   /\ validatedData.progress_percentage = MaxPercentage
        d1 == IF Has(validatedData, "progress_percentage")
              THEN Set(NoColumns, "progress_percentage", validatedData.progress_percentage)
              ELSE NoColumns
        d2 == IF ~Has(validatedData, "status") THEN d1
              ELSE IF /\ existingEnrollment.status = "assigned"
                      /\ validatedData.status = "in_progress"
              THEN Set(Set(d1, "status", validatedData.status), "started_at", t)
              ELSE IF /\ existingEnrollment.status = "in_progress"
                      /\ validatedData.status = "completed"
                      /\ (sent100 \/ existingEnrollment.progress_percentage = MaxPercentage)
              THEN Set(Set(Set(d1, "status", validatedData.status), "completed_at", t),
                       "progress_percentage", MaxPercentage)
              ELSE d1
        d3 == IF Has(validatedData, "started_at") /\ existingEnrollment.status = "assigned"
              THEN Set(Set(d2, "started_at", validatedData.started_at),
                       "status", "in_progress")
              ELSE d2
        d4 == IF Has(validatedData, "completed_at") /\ sent100
              THEN Set(Set(Set(d3, "completed_at", validatedData.completed_at),
                           "status", "completed"),
                       "progress_percentage", MaxPercentage)
              ELSE d3
    IN d4

PutEnrollmentHandler(session, enrollmentId, req) ==
    IF enrollments[enrollmentId] = NoRow THEN Reject(404)
    ELSE IF ~isAdmin(session) /\ enrollments[enrollmentId].learner_id # session.id
    THEN Reject(403)
    ELSE LET existingEnrollment == enrollments[enrollmentId]
             updateData == IF isAdmin(session)
                           THEN AdminEnrollmentUpdate(req)
                           ELSE LearnerEnrollmentUpdate(existingEnrollment, req, now)
         IN Outcome(200,
                    [enrollments EXCEPT ![enrollmentId] =
                       Updated(existingEnrollment, updateData)],
                    learning_records)

PutEnrollment(session, enrollmentId, req) ==
    Commit(PutEnrollmentHandler(session, enrollmentId, req))

\* ------------------------------------------- DELETE /api/enrollments/[id]
\* the delete without the test for dependent records
NoDependentRecords(records, enrollmentId) == {}

\* lines 280-285: the learning records that reference the enrollment
DependentRecords(records, enrollmentId) == RecordsOf(records, enrollmentId)

DeleteEnrollmentHandler(session, enrollmentId) ==
    IF ~isAdmin(session) THEN Reject(403)
    ELSE IF enrollments[enrollmentId] = NoRow THEN Reject(404)
    ELSE IF DependentRecords(learning_records, enrollmentId) # {} THEN Reject(409)
    ELSE Outcome(200, [enrollments EXCEPT ![enrollmentId] = NoRow], learning_records)

DeleteEnrollment(session, enrollmentId) ==
    Commit(DeleteEnrollmentHandler(session, enrollmentId))

\* --------------------------------------------- POST /api/learning-records
\* lines 186-192: the duration sent (the schema admits 1..1440, so it is
\* truthy), else derived from the end time; NULL (undefined) when neither is sent
CreateDuration(validatedData) ==
    IF Has(validatedData, "session_duration_minutes")
    THEN validatedData.session_duration_minutes
    ELSE IF Has(validatedData, "session_end_time")
    THEN DurationBetween(validatedData.session_start_time,
                         validatedData.session_end_time)
    ELSE NULL

\* `x || 0`
OrZero(x) == IF x = NULL THEN 0 ELSE x

\* the total without the session being recorded
CumulativeExistingOnly(records, existingRecords, sessionDurationMinutes) ==
    SumMinutes(records, existingRecords)

\* lines 194-206: minutes of the enrollment's records read, plus this session
CumulativeOnCreate(records, existingRecords, sessionDurationMinutes) ==
    SumMinutes(records, existingRecords) + OrZero(sessionDurationMinutes)

\* lines 209-223: the row inserted
InsertedRecord(validatedData, sessionDurationMinutes, cumulativeLearningMinutes, t) ==
    [enrollment_id |-> validatedData.enrollment_id,
     course_id |-> validatedData.course_id,
     learner_id |-> validatedData.learner_id,
     session_start_time |-> validatedData.session_start_time,
     session_duration_minutes |-> sessionDurationMinutes,
     cumulative_learning_minutes |-> cumulativeLearningMinutes,
     created_at |-> t]

\* the progress update without the start of an assigned enrollment
ProgressUpdateNoStart(status, progress_percentage, t) ==
    LET d1 == Set(NoColumns, "progress_percentage", progress_percentage)
    IN IF progress_percentage = MaxPercentage
       THEN Set(Set(d1, "status", "completed"), "completed_at", t)
       ELSE d1

\* lines 246-262: the enrollment columns a record with a progress writes;
\* `status` is the enrollment status the handler read at line 150
ProgressUpdateOnCreate(status, progress_percentage, t) ==
    LET d1 == Set(NoColumns, "progress_percentage", progress_percentage)
        d2 == IF status = "assigned"
              THEN Set(Set(d1, "status", "in_progress"), "started_at", t)
              ELSE d1
        d3 == IF progress_percentage = MaxPercentage
              THEN Set(Set(d2, "status", "completed"), "completed_at", t)
              ELSE d2
    IN d3

\* .update(updateData).eq("id", id) on a table: no row, nothing written
UpdateRow(table, id, updateData) ==
    IF id \in RowsOf(table)
    THEN [table EXCEPT ![id] = Updated(table[id], updateData)]
    ELSE table

\* the enrollment looked up by its id alone
EnrollmentById(validatedData) ==
    Single({e \in EnrollmentRows : e = validatedData.enrollment_id})

\* lines 150-156: the enrollment with the id, learner and course of the request
MatchingEnrollment(validatedData) ==
    Single({e \in EnrollmentRows :
              /\ e = validatedData.enrollment_id
              /\ enrollments[e].learner_id = validatedData.learner_id
              /\ enrollments[e].course_id = validatedData.course_id})

PostLearningRecordHandler(session, validatedData) ==
    IF ~isAdmin(session) /\ validatedData.learner_id # session.id THEN Reject(403)
    ELSE IF MatchingEnrollment(validatedData) = {} THEN Reject(404)
    ELSE LET enrollment == enrollments[validatedData.enrollment_id] IN
    IF enrollment.status = "cancelled" THEN Reject(400)
    ELSE IF \/ validatedData.course_id \notin CourseIds
            \/ ~courses[validatedData.course_id].is_active THEN Reject(404)
    ELSE LET sessionDurationMinutes == CreateDuration(validatedData)
             existingRecords ==
                 WithDuration(learning_records,
                              RecordsOf(learning_records, validatedData.enrollment_id))
             cumulativeLearningMinutes ==
                 CumulativeOnCreate(learning_records, existingRecords,
                                    sessionDurationMinutes)
             inserted ==
                 [learning_records EXCEPT ![FreshId(learning_records)] =
                    InsertedRecord(validatedData, sessionDurationMinutes,
                                   cumulativeLearningMinutes, now)]
         IN IF Has(validatedData, "progress_percentage")
            THEN Outcome(201,
                         UpdateRow(enrollments, validatedData.enrollment_id,
                                   ProgressUpdateOnCreate(
                                       enrollment.status,
                                       validatedData.progress_percentage, now)),
                         inserted)
            ELSE Outcome(201, enrollments, inserted)

PostLearningRecord(session, req) ==
    /\ RecordRows # RecordIds
    /\ Commit(PostLearningRecordHandler(session, req))

\* ----------------------------------------- PUT /api/learning-records/[id]
\* the edit window without the exemption of admins
StaleEditWindowForAll(session, existingRecord, t) ==
    DateOf(existingRecord.created_at) # DateOf(t)

\* lines 136-147 and 312-323: a learner edits only records created today
StaleEditWindow(session, existingRecord, t) ==
    ~isAdmin(session) /\ DateOf(existingRecord.created_at) # DateOf(t)

\* lines 149-155: the duration sent, else derived from the end time sent
UpdateDuration(existingRecord, validatedData) ==
    IF Has(validatedData, "session_duration_minutes")
    THEN validatedData.session_duration_minutes
    ELSE IF Has(validatedData, "session_end_time")
    THEN DurationBetween(existingRecord.session_start_time,
                         validatedData.session_end_time)
    ELSE NULL

\* a recomputation that forgets the other records of the enrollment
CumulativeOwnOnly(records, otherRecords, sessionDurationMinutes) ==
    sessionDurationMinutes

\* lines 157-173: the other records' minutes plus the new duration
CumulativeOnUpdate(records, otherRecords, sessionDurationMinutes) ==
    SumMinutes(records, otherRecords) + sessionDurationMinutes

\* lines 176-190: the record columns written (NULL here is `undefined`: cut)
RecordUpdateData(records, id, existingRecord, sessionDurationMinutes) ==
    LET d1 == IF sessionDurationMinutes # NULL
              THEN Set(NoColumns, "session_duration_minutes", sessionDurationMinutes)
              ELSE NoColumns
        d2 == IF /\ sessionDurationMinutes # NULL
                 /\ sessionDurationMinutes # existingRecord.session_duration_minutes
              THEN Set(d1, "cumulative_learning_minutes",
                       CumulativeOnUpdate(
                           records,
                           WithDuration(records,
                               RecordsOf(records, existingRecord.enrollment_id) \ {id}),
                           sessionDurationMinutes))
              ELSE d1
    IN d2

\* lines 232-242: the enrollment columns an updated record with a progress writes
ProgressUpdateOnUpdate(progress_percentage, t) ==
    LET d1 == Set(NoColumns, "progress_percentage", progress_percentage)
        d2 == IF progress_percentage = MaxPercentage
              THEN Set(Set(d1, "status", "completed"), "completed_at", t)
              ELSE d1
    IN d2

PutLearningRecordHandler(session, learningRecordId, validatedData) ==
    IF learning_records[learningRecordId] = NoRow THEN Reject(404)
    ELSE LET existingRecord == learning_records[learningRecordId] IN
    IF ~isAdmin(session) /\ existingRecord.learner_id # session.id THEN Reject(403)
    ELSE IF StaleEditWindow(session, existingRecord, now) THEN Reject(400)
    ELSE LET sessionDurationMinutes == UpdateDuration(existingRecord, validatedData)
             updated ==
                 UpdateRow(learning_records, learningRecordId,
                           RecordUpdateData(learning_records, learningRecordId,
                                            existingRecord, sessionDurationMinutes))
         IN IF Has(validatedData, "progress_percentage")
            THEN Outcome(200,
                         UpdateRow(enrollments, existingRecord.enrollment_id,
                                   ProgressUpdateOnUpdate(
                                       validatedData.progress_percentage, now)),
                         updated)
            ELSE Outcome(200, enrollments, updated)

PutLearningRecord(session, learningRecordId, req) ==
    Commit(PutLearningRecordHandler(session, learningRecordId, req))

\* -------------------------------------- DELETE /api/learning-records/[id]
\* lines 354-360: order by session_start_time desc, limit 1; the store picks
\* among rows with the same greatest start time
LatestRecords(records, e) ==
    {r \in RecordsOf(records, e) :
        \A q \in RecordsOf(records, e) :
            records[q].session_start_time <= records[r].session_start_time}

\* lines 339-369: after the delete, the total of the remaining records is
\* written on the latest remaining record `latestRecord`
RecomputeAfterDelete(records, existingRecord, latestRecord) ==
    LET remainingRecords ==
            WithDuration(records, RecordsOf(records, existingRecord.enrollment_id))
        newCumulativeMinutes == SumMinutes(records, remainingRecords)
    IN IF /\ existingRecord.session_duration_minutes # NULL
          /\ existingRecord.session_duration_minutes # 0
          /\ remainingRecords # {}
       THEN UpdateRow(records, latestRecord,
                      [cumulative_learning_minutes |-> newCumulativeMinutes])
       ELSE records

DeleteLearningRecordHandler(session, learningRecordId, latestRecord) ==
    IF learning_records[learningRecordId] = NoRow THEN Reject(404)
    ELSE LET existingRecord == learning_records[learningRecordId] IN
    IF ~isAdmin(session) /\ existingRecord.learner_id # session.id THEN Reject(403)
    ELSE IF StaleEditWindow(session, existingRecord, now) THEN Reject(400)
    ELSE Outcome(200, enrollments,
                 RecomputeAfterDelete(
                     [learning_records EXCEPT ![learningRecordId] = NoRow],
                     existingRecord, latestRecord))

\* the rows the "latest record" query can return once the record is deleted
LatestAfterDelete(learningRecordId) ==
    IF learning_records[learningRecordId] = NoRow THEN {learningRecordId}
    ELSE LET rest == [learning_records EXCEPT ![learningRecordId] = NoRow]
             latest == LatestRecords(rest, learning_records[learningRecordId].enrollment_id)
         IN IF latest = {} THEN {learningRecordId} ELSE latest

DeleteLearningRecord(session, learningRecordId) ==
    \E latestRecord \in LatestAfterDelete(learningRecordId) :
        Commit(DeleteLearningRecordHandler(session, learningRecordId, latestRecord))

\* ------------------------------------------------------------ the reads
\* a read that shows every row to every session
VisibleToAll(session, row) == TRUE

\* `if (!isAdmin(session)) query = query.eq("learner_id", session.user.id)`
VisibleTo(session, row) == isAdmin(session) \/ row.learner_id = session.id

\* `if (validatedQuery.f) query = query.eq(f, validatedQuery.f)`
Filter(validatedQuery, f, value) == Has(validatedQuery, f) => value = validatedQuery[f]

\* the embedded enrollments(id, status, progress_percentage) of a record
JoinedEnrollment(table, e) ==
    IF e \in RowsOf(table)
    THEN [id |-> e, status |-> table[e].status,
          progress_percentage |-> table[e].progress_percentage]
    ELSE NoRow

\* GET /api/learning-records: the rows selected and their exact count (the
\* page returned is cut from these rows in the order asked for)
GetLearningRecords(session, validatedQuery, records, enrollmentTable) ==
    LET rows == {r \in RowsOf(records) :
                    /\ VisibleTo(session, records[r])
                    /\ Filter(validatedQuery, "learner_id", records[r].learner_id)
                    /\ Filter(validatedQuery, "course_id", records[r].course_id)
                    /\ Filter(validatedQuery, "enrollment_id", records[r].enrollment_id)}
    IN [status |-> 200,
        data |-> {[id |-> r, row |-> records[r],
                   enrollments |-> JoinedEnrollment(enrollmentTable,
                                                    records[r].enrollment_id)] : r \in rows},
        total |-> Cardinality(rows)]

\* GET /api/enrollments
GetEnrollments(session, validatedQuery, enrollmentTable) ==
    LET rows == {e \in RowsOf(enrollmentTable) :
                    /\ VisibleTo(session, enrollmentTable[e])
                    /\ Filter(validatedQuery, "learner_id", enrollmentTable[e].learner_id)
                    /\ Filter(validatedQuery, "course_id", enrollmentTable[e].course_id)
                    /\ Filter(validatedQuery, "status", enrollmentTable[e].status)}
    IN [status |-> 200,
        data |-> {[id |-> e, row |-> enrollmentTable[e]] : e \in rows},
        total |-> Cardinality(rows)]

\* GET /api/enrollments/[id]
GetEnrollment(session, enrollmentId, enrollmentTable) ==
    LET rows == {e \in RowsOf(enrollmentTable) :
                    e = enrollmentId /\ VisibleTo(session, enrollmentTable[e])}
    IN IF rows = {} THEN [status |-> 404, data |-> {}, total |-> 0]
       ELSE [status |-> 200,
             data |-> {[id |-> e, row |-> enrollmentTable[e]] : e \in rows},
             total |-> 1]

\* The one client that reads, and keeps the response of its last read.
Readers == {"p1"}

Read(p, operation, session, request, response) ==
    /\ Resting(p)
    /\ proc' = [proc EXCEPT ![p] =
                  [pc |-> "returned", fn |-> operation, session |-> session,
                   request |-> request, response |-> response]]
    /\ UNCHANGED <<enrollments, learning_records, courses, now>>

CallGetLearningRecords(p, session, validatedQuery) ==
    Read(p, "GET /api/learning-records", session, validatedQuery,
         GetLearningRecords(session, validatedQuery, learning_records, enrollments))

CallGetEnrollments(p, session, validatedQuery) ==
    Read(p, "GET /api/enrollments", session, validatedQuery,
         GetEnrollments(session, validatedQuery, enrollments))

CallGetEnrollment(p, session, enrollmentId) ==
    Read(p, "GET /api/enrollments/[id]", session, [id |-> enrollmentId],
         GetEnrollment(session, enrollmentId, enrollments))

\* ----------------------------------------------------------- the requests
\* The requests clients send, drawn from the value sets of an input profile.
EnrollmentCreateRequests(In) ==
    { [learner_id |-> l, course_id |-> c] @@ s :
        l \in In.enrollLearners, c \in In.courseIds,
        s \in Optional("status", In.createStatuses) }

EnrollmentUpdateRequests(In) ==
    { p @@ s @@ a @@ c :
        p \in Optional("progress_percentage", In.progress),
        s \in Optional("status", In.updateStatuses),
        a \in Optional("started_at", In.stamps),
        c \in Optional("completed_at", In.stamps) }

RecordCreateRequests(In) ==
    { [enrollment_id |-> e, course_id |-> c, learner_id |-> l,
       session_start_time |-> st] @@ en @@ d @@ p :
        e \in EnrollmentIds, c \in In.recordCourseIds, l \in In.recordLearners,
        st \in In.startTimes,
        en \in Optional("session_end_time", In.endTimes),
        d \in Optional("session_duration_minutes", In.durations),
        p \in Optional("progress_percentage", In.progress) }

RecordUpdateRequests(In) ==
    { en @@ d @@ p :
        en \in Optional("session_end_time", In.endTimes),
        d \in Optional("session_duration_minutes", In.durations),
        p \in Optional("progress_percentage", In.progress) }

\* ------------------------- POST /api/learning-records, one await at a time
\* Two requests in flight: each handler runs from one store call to the next;
\* what it has read so far is in its local variables proc[p].
Done(p, status) == proc' = [proc EXCEPT ![p] = [pc |-> "done", status |-> status] @@ proc[p]]
Goto(p, pc, locals) == proc' = [proc EXCEPT ![p] = ([pc |-> pc] @@ locals) @@ proc[p]]

\* lines 134-156: body parsed, role check, then the enrollment is read
ReadEnrollment(p, session, validatedData) ==
    /\ proc[p].pc = "idle"
    /\ UNCHANGED <<enrollments, learning_records, courses, now>>
    /\ LET start == [session |-> session, validatedData |-> validatedData] IN
       IF ~isAdmin(session) /\ validatedData.learner_id # session.id
       THEN proc' = [proc EXCEPT ![p] = [pc |-> "done", status |-> 403] @@ start]
       ELSE IF MatchingEnrollment(validatedData) = {}
       THEN proc' = [proc EXCEPT ![p] = [pc |-> "done", status |-> 404] @@ start]
       ELSE IF enrollments[validatedData.enrollment_id].status = "cancelled"
       THEN proc' = [proc EXCEPT ![p] = [pc |-> "done", status |-> 400] @@ start]
       ELSE proc' = [proc EXCEPT ![p] =
                       [pc |-> "course",
                        enrollment |->
                            [status |-> enrollments[validatedData.enrollment_id].status]]
                       @@ start]

\* lines 172-184: the course is read
ReadCourse(p) ==
    /\ proc[p].pc = "course"
    /\ UNCHANGED <<enrollments, learning_records, courses, now>>
    /\ IF \/ proc[p].validatedData.course_id \notin CourseIds
          \/ ~courses[proc[p].validatedData.course_id].is_active
       THEN Done(p, 404)
       ELSE Goto(p, "existing", NoColumns)

\* lines 194-206: the enrollment's records with a duration are read and summed
ReadExistingRecords(p) ==
    /\ proc[p].pc = "existing"
    /\ UNCHANGED <<enrollments, learning_records, courses, now>>
    /\ LET existingRecords ==
               WithDuration(learning_records,
                            RecordsOf(learning_records,
                                      proc[p].validatedData.enrollment_id))
       IN Goto(p, "insert",
               [existingRecords |-> existingRecords,
                cumulativeLearningMinutes |->
                    CumulativeOnCreate(learning_records, existingRecords,
                                       CreateDuration(proc[p].validatedData))])

\* the total summed again at the insert, as one step with it
InsertCumulativeAtomic(p) ==
    CumulativeOnCreate(
        learning_records,
        WithDuration(learning_records,
                     RecordsOf(learning_records, proc[p].validatedData.enrollment_id)),
        CreateDuration(proc[p].validatedData))

\* line 220: the total written is the one computed from the earlier read
InsertCumulative(p) == proc[p].cumulativeLearningMinutes

\* a store that accepts any enrollment_id
Unconstrained(enrollmentTable, enrollment_id) == TRUE

\* learning_records_enrollment_id_fkey: enrollment_id references enrollments.id
ForeignKeyHolds(enrollmentTable, enrollment_id) ==
    enrollmentTable[enrollment_id] # NoRow

\* lines 208-243: the record is inserted with the total computed from that read;
\* an insert the store refuses is answered 500 (lines 237-243)
InsertRecord(p) ==
    /\ proc[p].pc = "insert"
    /\ RecordRows # RecordIds
    /\ UNCHANGED <<enrollments, courses, now>>
    /\ IF ~ForeignKeyHolds(enrollments, proc[p].validatedData.enrollment_id)
       THEN UNCHANGED learning_records /\ Done(p, 500)
       ELSE /\ learning_records' =
                 [learning_records EXCEPT ![FreshId(learning_records)] =
                    InsertedRecord(proc[p].validatedData,
                                   CreateDuration(proc[p].validatedData),
                                   InsertCumulative(p), now)]
            /\ IF Has(proc[p].validatedData, "progress_percentage")
               THEN Goto(p, "update", [newLearningRecord |-> FreshId(learning_records)])
               ELSE proc' = [proc EXCEPT ![p] =
                               [pc |-> "done", status |-> 201,
                                newLearningRecord |-> FreshId(learning_records)]
                               @@ proc[p]]

\* lines 245-273: the enrollment is updated from the status read at the start
UpdateEnrollmentProgress(p) ==
    /\ proc[p].pc = "update"
    /\ UNCHANGED <<learning_records, courses, now>>
    /\ enrollments' =
         UpdateRow(enrollments, proc[p].validatedData.enrollment_id,
                   ProgressUpdateOnCreate(proc[p].enrollment.status,
                                          proc[p].validatedData.progress_percentage,
                                          now))
    /\ Done(p, 201)

\* lines 264-267 when the store fails the update: the result of the call is
\* not looked at, so an error returned is ignored (201) and an error thrown
\* lands in the catch block (500); the inserted record stays
UpdateEnrollmentProgressFails(p) ==
    /\ proc[p].pc = "update"
    /\ UNCHANGED <<enrollments, learning_records, courses, now>>
    /\ \E status \in {201, 500} : Done(p, status)

ConcurrentPost(In) ==
    \/ \E p \in Procs, s \in In.sessions, req \in RecordCreateRequests(In) :
          ReadEnrollment(p, s, req)
    \/ \E p \in Procs : ReadCourse(p)
    \/ \E p \in Procs : ReadExistingRecords(p)
    \/ \E p \in Procs : InsertRecord(p)
    \/ \E p \in Procs : UpdateEnrollmentProgress(p)

\* ----------------------------- POST /api/enrollments, one await at a time
\* lines 458-492: role check, body parsed, then the learner's users row is read
ReadLearner(p, session, req) ==
    /\ proc[p].pc = "idle"
    /\ UNCHANGED <<enrollments, learning_records, courses, now>>
    /\ LET validatedData == enrollmentCreateSchema(req)
           start == [session |-> session, validatedData |-> validatedData]
       IN IF ~isAdmin(session)
          THEN proc' = [proc EXCEPT ![p] = [pc |-> "done", status |-> 403] @@ start]
          ELSE IF validatedData.learner_id \notin UserIds
          THEN proc' = [proc EXCEPT ![p] = [pc |-> "done", status |-> 404] @@ start]
          ELSE IF RoleOf(validatedData.learner_id) # "learner"
          THEN proc' = [proc EXCEPT ![p] = [pc |-> "done", status |-> 400] @@ start]
          ELSE proc' = [proc EXCEPT ![p] = [pc |-> "enrollmentCourse"] @@ start]

\* lines 494-513: the course is read
ReadEnrollmentCourse(p) ==
    /\ proc[p].pc = "enrollmentCourse"
    /\ UNCHANGED <<enrollments, learning_records, courses, now>>
    /\ IF proc[p].validatedData.course_id \notin CourseIds THEN Done(p, 404)
       ELSE IF ~courses[proc[p].validatedData.course_id].is_active THEN Done(p, 400)
       ELSE Goto(p, "duplicate", NoColumns)

\* lines 515-528: the duplicate check
CheckDuplicate(p) ==
    /\ proc[p].pc = "duplicate"
    /\ UNCHANGED <<enrollments, learning_records, courses, now>>
    /\ LET existingEnrollment ==
               Single({e \in EnrollmentRows :
                         /\ enrollments[e].learner_id = proc[p].validatedData.learner_id
                         /\ enrollments[e].course_id = proc[p].validatedData.course_id})
       IN IF existingEnrollment # {} THEN Done(p, 409)
          ELSE Goto(p, "insertEnrollment", NoColumns)

\* lines 530-564: the row is inserted
InsertEnrollment(p) ==
    /\ proc[p].pc = "insertEnrollment"
    /\ EnrollmentRows # EnrollmentIds
    /\ UNCHANGED <<learning_records, courses, now>>
    /\ enrollments' = [enrollments EXCEPT ![FreshId(enrollments)] =
                          InsertedEnrollment(proc[p].validatedData)]
    /\ Done(p, 201)

ConcurrentEnroll(In) ==
    \/ \E p \in Procs, s \in In.sessions, req \in EnrollmentCreateRequests(In) :
          ReadLearner(p, s, req)
    \/ \E p \in Procs : ReadEnrollmentCourse(p)
    \/ \E p \in Procs : CheckDuplicate(p)
    \/ \E p \in Procs : InsertEnrollment(p)

\* ------------------------ DELETE /api/enrollments/[id], one await at a time
\* lines 254-277: role check, then the enrollment is read
ReadExistingEnrollment(p, session, enrollmentId) ==
    /\ proc[p].pc = "idle"
    /\ UNCHANGED <<enrollments, learning_records, courses, now>>
    /\ LET start == [session |-> session, enrollmentId |-> enrollmentId] IN
       IF ~isAdmin(session)
       THEN proc' = [proc EXCEPT ![p] = [pc |-> "done", status |-> 403] @@ start]
       ELSE IF enrollments[enrollmentId] = NoRow
       THEN proc' = [proc EXCEPT ![p] = [pc |-> "done", status |-> 404] @@ start]
       ELSE proc' = [proc EXCEPT ![p] = [pc |-> "dependents"] @@ start]

\* lines 279-291: the records that reference the enrollment are read
ReadDependentRecords(p) ==
    /\ proc[p].pc = "dependents"
    /\ UNCHANGED <<enrollments, learning_records, courses, now>>
    /\ IF DependentRecords(learning_records, proc[p].enrollmentId) # {}
       THEN Done(p, 409)
       ELSE Goto(p, "deleteEnrollment", NoColumns)

\* lines 293-310: the row is deleted. When records reference it by now, the
\* foreign key decides: the source does not give its ON DELETE rule, so the
\* store either refuses the delete (500) or removes the records with the row.
DeleteEnrollmentRow(p) ==
    /\ proc[p].pc = "deleteEnrollment"
    /\ UNCHANGED <<courses, now>>
    /\ LET referencing == RecordsOf(learning_records, proc[p].enrollmentId) IN
       \/ /\ referencing = {}
          /\ enrollments' = [enrollments EXCEPT ![proc[p].enrollmentId] = NoRow]
          /\ UNCHANGED learning_records
          /\ Done(p, 200)
       \/ /\ referencing # {}
          /\ UNCHANGED <<enrollments, learning_records>>
          /\ Done(p, 500)
       \/ /\ referencing # {}
          /\ enrollments' = [enrollments EXCEPT ![proc[p].enrollmentId] = NoRow]
          /\ learning_records' =
                [r \in RecordIds |-> IF r \in referencing THEN NoRow
                                     ELSE learning_records[r]]
          /\ Done(p, 200)

ConcurrentDelete(In) ==
    \/ \E p \in Procs, s \in In.sessions, e \in EnrollmentIds :
          ReadExistingEnrollment(p, s, e)
    \/ \E p \in Procs : ReadDependentRecords(p)
    \/ \E p \in Procs : DeleteEnrollmentRow(p)

\* ------------------------------------------------------------ the system
System(In) ==
    \/ Tick
    \/ \E s \in In.sessions, c \in CourseIds, req \in CourseUpdateRequests :
          PutCourse(s, c, req)
    \/ \E s \in In.sessions, req \in EnrollmentCreateRequests(In) :
          PostEnrollment(s, req)
    \/ \E s \in In.sessions, e \in EnrollmentIds, req \in EnrollmentUpdateRequests(In) :
          PutEnrollment(s, e, req)
    \/ \E s \in In.sessions, e \in EnrollmentIds : DeleteEnrollment(s, e)
    \/ \E s \in In.sessions, req \in RecordCreateRequests(In) :
          PostLearningRecord(s, req)
    \/ \E s \in In.sessions, r \in RecordIds, req \in RecordUpdateRequests(In) :
          PutLearningRecord(s, r, req)
    \/ \E s \in In.sessions, r \in RecordIds : DeleteLearningRecord(s, r)

\* Inputs that exercise the enrollment life cycle: every status and progress,
\* one learner enrolled, sessions of one length.
LifecycleInputs ==
    [sessions |-> Sessions,
     enrollLearners |-> {"l1", "adm", UnknownUser},
     courseIds |-> CourseIds \cup {UnknownCourse},
     createStatuses |-> enrollmentStatusSchema,
     updateStatuses |-> enrollmentStatusSchema,
     progress |-> Percentages,
     stamps |-> {0},
     recordLearners |-> Learners,
     recordCourseIds |-> CourseIds,
     startTimes |-> {0},
     endTimes |-> {},
     durations |-> {1}]

Next == System(LifecycleInputs)

Spec == Init /\ [][Next]_vars

\* The record handlers on the enrollment of one learner.
RecordSystem(In) ==
    \/ \E s \in In.sessions, req \in EnrollmentCreateRequests(In) :
          PostEnrollment(s, req)
    \/ \E s \in In.sessions, req \in RecordCreateRequests(In) :
          PostLearningRecord(s, req)
    \/ \E s \in In.sessions, r \in RecordIds, req \in RecordUpdateRequests(In) :
          PutLearningRecord(s, r, req)
    \/ \E s \in In.sessions, r \in RecordIds : DeleteLearningRecord(s, r)

\* Inputs that exercise the aggregation of session minutes: sessions of
\* several lengths and start times, with and without a progress, all served
\* within one tick of the clock.
RecordInputs ==
    [sessions |-> {[id |-> "adm", role |-> "admin"], [id |-> "l1", role |-> "learner"]},
     enrollLearners |-> {"l1"},
     courseIds |-> CourseIds,
     createStatuses |-> {},
     progress |-> {50, MaxPercentage},
     recordLearners |-> {"l1"},
     recordCourseIds |-> CourseIds,
     startTimes |-> {0, 2},
     endTimes |-> {},
     durations |-> {1, 2}]

NextRecords == RecordSystem(RecordInputs)

SpecRecords == Init /\ [][NextRecords]_vars

\* Inputs that exercise the same-day edit window: records created on one day
\* and edited or deleted on that day or a later one.
WindowInputs ==
    [sessions |-> {[id |-> "adm", role |-> "admin"], [id |-> "l1", role |-> "learner"]},
     enrollLearners |-> {"l1"},
     courseIds |-> CourseIds,
     createStatuses |-> {},
     progress |-> {},
     recordLearners |-> {"l1"},
     recordCourseIds |-> CourseIds,
     startTimes |-> {0},
     endTimes |-> {},
     durations |-> {1, 2}]

NextWindow == Tick \/ RecordSystem(WindowInputs)

SpecWindow == Init /\ [][NextWindow]_vars

\* Inputs that exercise the guards of the handlers: every kind of session,
\* targets that exist and targets that do not, courses active and inactive,
\* enrollments cancelled or not.
GuardInputs ==
    [sessions |-> Sessions,
     enrollLearners |-> Learners \cup {"adm", UnknownUser},
     courseIds |-> CourseIds \cup {UnknownCourse},
     createStatuses |-> {"cancelled"},
     progress |-> {50},
     recordLearners |-> Learners,
     recordCourseIds |-> CourseIds \cup {UnknownCourse},
     startTimes |-> {0},
     endTimes |-> {},
     durations |-> {}]

NextGuards ==
    \/ \E s \in GuardInputs.sessions, c \in CourseIds, req \in CourseUpdateRequests :
          PutCourse(s, c, req)
    \/ \E s \in GuardInputs.sessions, e \in EnrollmentIds : DeleteEnrollment(s, e)
    \/ RecordSystem(GuardInputs)

SpecGuards == Init /\ [][NextGuards]_vars

\* Inputs that exercise the derived duration: sessions given by their end
\* time, which may lie before the start, or by their length.
DurationInputs ==
    [sessions |-> {[id |-> "l1", role |-> "learner"]},
     enrollLearners |-> {"l1"},
     courseIds |-> CourseIds,
     createStatuses |-> {},
     progress |-> {},
     recordLearners |-> {"l1"},
     recordCourseIds |-> CourseIds,
     startTimes |-> {0, 2},
     endTimes |-> {0, 3},
     durations |-> {1}]

NextDurations ==
    \/ \E req \in EnrollmentCreateRequests(DurationInputs) :
          PostEnrollment([id |-> "adm", role |-> "admin"], req)
    \/ \E s \in DurationInputs.sessions, req \in RecordCreateRequests(DurationInputs) :
          PostLearningRecord(s, req)
    \/ \E s \in DurationInputs.sessions, r \in RecordIds,
          req \in RecordUpdateRequests(DurationInputs) : PutLearningRecord(s, r, req)
    \/ \E s \in DurationInputs.sessions, r \in RecordIds : DeleteLearningRecord(s, r)

SpecDurations == Init /\ [][NextDurations]_vars

\* Two POST /api/learning-records requests in flight on the store.
ConcurrentInputs ==
    [sessions |-> {[id |-> "l1", role |-> "learner"]},
     enrollLearners |-> {"l1"},
     courseIds |-> CourseIds,
     createStatuses |-> {},
     progress |-> {50},
     recordLearners |-> {"l1"},
     recordCourseIds |-> CourseIds,
     startTimes |-> {0},
     endTimes |-> {},
     durations |-> {1, 2}]

NextConcurrent ==
    \/ \E req \in EnrollmentCreateRequests(ConcurrentInputs) :
          PostEnrollment([id |-> "adm", role |-> "admin"], req)
    \/ \E s \in ConcurrentInputs.sessions, req \in RecordCreateRequests(ConcurrentInputs) :
          PostLearningRecord(s, req)
    \/ ConcurrentPost(ConcurrentInputs)

SpecConcurrent == Init /\ [][NextConcurrent]_vars

\* The requests in flight on a store whose enrollment update can fail.
NextFaults ==
    \/ NextConcurrent
    \/ \E p \in Procs : UpdateEnrollmentProgressFails(p)

SpecFaults == Init /\ [][NextFaults]_vars

\* Callers of the access helpers on a store of enrollments.
AccessInputs ==
    [sessions |-> AdminSessionsOnly,
     enrollLearners |-> Learners,
     courseIds |-> CourseIds,
     createStatuses |-> {},
     callSessions |-> Sessions \cup {NoSession},
     callUsers |-> UserIds,
     callCourses |-> CourseIds \cup {UnknownCourse}]

\* the session argument and, when it is null, what getServerSession() gives
SessionPairs(In) ==
    {<<s, NoSession>> : s \in In.callSessions \ {NoSession}}
        \cup {<<NoSession, ss>> : ss \in In.callSessions}

AccessCalls(In) ==
    \/ \E p \in Procs, u \in In.callUsers, pair \in SessionPairs(In) :
          CallCanAccessResource(p, u, pair[1], pair[2])
    \/ \E p \in Procs, c \in In.callCourses, pair \in SessionPairs(In),
          lookup \in Lookups :
          CallCanAccessCourse(p, c, pair[1], pair[2], lookup)

NextAccess ==
    \/ \E s \in AccessInputs.sessions, req \in EnrollmentCreateRequests(AccessInputs) :
          PostEnrollment(s, req)
    \/ \E s \in AccessInputs.sessions, e \in EnrollmentIds : DeleteEnrollment(s, e)
    \/ AccessCalls(AccessInputs)

SpecAccess == Init /\ [][NextAccess]_vars

\* Two POST /api/enrollments requests in flight on the store, and a learner
\* whose access is checked.
EnrollRaceInputs ==
    [sessions |-> Sessions,
     enrollLearners |-> Learners \cup {"adm", UnknownUser},
     courseIds |-> CourseIds \cup {UnknownCourse},
     createStatuses |-> {},
     callSessions |-> {[id |-> "l1", role |-> "learner"]},
     callUsers |-> {"l1"},
     callCourses |-> CourseIds]

NextEnrollRace ==
    \/ \E s \in EnrollRaceInputs.sessions, e \in EnrollmentIds : DeleteEnrollment(s, e)
    \/ ConcurrentEnroll(EnrollRaceInputs)
    \/ AccessCalls(EnrollRaceInputs)

SpecEnrollRace == Init /\ [][NextEnrollRace]_vars

\* The query strings a client sends to the two lists.
RecordListQueries(In) ==
    { l @@ c @@ e :
        l \in Optional("learner_id", In.queryLearners),
        c \in Optional("course_id", In.queryCourses),
        e \in Optional("enrollment_id", In.queryEnrollments) }

EnrollmentListQueries(In) ==
    { l @@ c @@ st :
        l \in Optional("learner_id", In.queryLearners),
        c \in Optional("course_id", In.queryCourses),
        st \in Optional("status", In.queryStatuses) }

\* Two learners with enrollments and records, and a client that reads.
ReadInputs ==
    [sessions |-> AdminSessionsOnly,
     enrollLearners |-> Learners,
     courseIds |-> CourseIds,
     createStatuses |-> {},
     progress |-> {},
     recordLearners |-> Learners,
     recordCourseIds |-> CourseIds,
     startTimes |-> {0},
     endTimes |-> {},
     durations |-> {},
     readSessions |-> {[id |-> "adm", role |-> "admin"], [id |-> "l1", role |-> "learner"]},
     queryLearners |-> Learners,
     queryCourses |-> CourseIds,
     queryEnrollments |-> {1},
     queryStatuses |-> {}]

Reads(In) ==
    \/ \E p \in Readers, s \in In.readSessions, q \in RecordListQueries(In) :
          CallGetLearningRecords(p, s, q)
    \/ \E p \in Readers, s \in In.readSessions, q \in EnrollmentListQueries(In) :
          CallGetEnrollments(p, s, q)
    \/ \E p \in Readers, s \in In.readSessions, e \in EnrollmentIds :
          CallGetEnrollment(p, s, e)

NextReads ==
    \/ \E s \in ReadInputs.sessions, req \in EnrollmentCreateRequests(ReadInputs) :
          PostEnrollment(s, req)
    \/ \E s \in ReadInputs.sessions, req \in RecordCreateRequests(ReadInputs) :
          PostLearningRecord(s, req)
    \/ Reads(ReadInputs)

SpecReads == Init /\ [][NextReads]_vars

\* Inputs that exercise an enrollment delete racing with record creates on
\* the same enrollment.
DeleteRaceInputs ==
    [sessions |-> {[id |-> "adm", role |-> "admin"]},
     enrollLearners |-> {"l1"},
     courseIds |-> CourseIds,
     createStatuses |-> {},
     progress |-> {50},
     recordLearners |-> {"l1"},
     recordCourseIds |-> CourseIds,
     startTimes |-> {0},
     endTimes |-> {},
     durations |-> {1}]

NextDeleteRace ==
    \/ \E s \in DeleteRaceInputs.sessions, req \in EnrollmentCreateRequests(DeleteRaceInputs) :
          PostEnrollment(s, req)
    \/ ConcurrentPost(DeleteRaceInputs)
    \/ ConcurrentDelete(DeleteRaceInputs)

SpecDeleteRace == Init /\ [][NextDeleteRace]_vars

\* Inputs that exercise two record creates racing on one enrollment, one of
\* them reporting full progress.
CompletionRaceInputs ==
    [sessions |-> {[id |-> "l1", role |-> "learner"]},
     enrollLearners |-> {"l1"},
     courseIds |-> CourseIds,
     createStatuses |-> {},
     progress |-> {50, MaxPercentage},
     recordLearners |-> {"l1"},
     recordCourseIds |-> CourseIds,
     startTimes |-> {0},
     endTimes |-> {},
     durations |-> {1}]

NextCompletionRace ==
    \/ \E req \in EnrollmentCreateRequests(CompletionRaceInputs) :
          PostEnrollment([id |-> "adm", role |-> "admin"], req)
    \/ ConcurrentPost(CompletionRaceInputs)

SpecCompletionRace == Init /\ [][NextCompletionRace]_vars

\* Inputs that exercise the learners' own operations on enrollments an admin
\* created in status assigned: no admin update, one request at a time, all
\* served within one tick of the clock.
LearnerOnlyInputs ==
    [sessions |-> {[id |-> "l1", role |-> "learner"]},
     enrollLearners |-> {"l1"},
     courseIds |-> CourseIds,
     createStatuses |-> {},
     updateStatuses |-> enrollmentStatusSchema,
     progress |-> {50, MaxPercentage},
     stamps |-> {0},
     recordLearners |-> {"l1"},
     recordCourseIds |-> CourseIds,
     startTimes |-> {0},
     endTimes |-> {},
     durations |-> {1}]

NextLearnerOnly ==
    \/ \E req \in EnrollmentCreateRequests(LearnerOnlyInputs) :
          PostEnrollment([id |-> "adm", role |-> "admin"], req)
    \/ \E s \in LearnerOnlyInputs.sessions, e \in EnrollmentIds,
          req \in EnrollmentUpdateRequests(LearnerOnlyInputs) : PutEnrollment(s, e, req)
    \/ \E s \in LearnerOnlyInputs.sessions, req \in RecordCreateRequests(LearnerOnlyInputs) :
          PostLearningRecord(s, req)
    \/ \E s \in LearnerOnlyInputs.sessions, r \in RecordIds,
          req \in RecordUpdateRequests(LearnerOnlyInputs) : PutLearningRecord(s, r, req)
    \/ \E s \in LearnerOnlyInputs.sessions, r \in RecordIds : DeleteLearningRecord(s, r)

SpecLearnerOnly == Init /\ [][NextLearnerOnly]_vars

\* ------------------------------------------------ handlers behind withAuth
\* The handlers handed to withAuth: the body of DELETE /api/enrollments/[id]
\* (line 251) for each enrollment id, and a handler that throws.
WrappedHandlers ==
    {[s \in Sessions |-> DeleteEnrollmentHandler(s, e)] : e \in EnrollmentIds}
        \cup {[s \in Sessions |-> Thrown]}

AuthOptions == {NoColumns} \cup {[requireRole |-> r] : r \in {"admin", "learner"}}

ServerSessions == Sessions \cup {NoSession, SessionFails}

Wrapped(p, fn, options, serverSession, response) ==
    /\ Resting(p)
    /\ proc' = [proc EXCEPT ![p] =
                  [pc |-> "returned", fn |-> fn, options |-> options,
                   serverSession |-> serverSession,
                   invoked |-> response.invoked, status |-> response.status]]
    /\ enrollments' = response.enrollments
    /\ learning_records' = response.learning_records
    /\ UNCHANGED <<courses, now>>

CallWithAuth(p, handler, options, serverSession) ==
    Wrapped(p, "withAuth", options, serverSession,
            withAuth(handler, options, serverSession))

CallWithAdminAuth(p, handler, serverSession) ==
    Wrapped(p, "withAdminAuth", [requireRole |-> "admin"], serverSession,
            withAdminAuth(handler, serverSession))

\* Inputs that exercise the wrappers: enrollments to delete, and calls with
\* every kind of session and required role.
AuthInputs ==
    [sessions |-> AdminSessionsOnly,
     enrollLearners |-> Learners,
     courseIds |-> CourseIds,
     createStatuses |-> {}]

NextAuth ==
    \/ \E s \in AuthInputs.sessions, req \in EnrollmentCreateRequests(AuthInputs) :
          PostEnrollment(s, req)
    \/ \E p \in Readers, handler \in WrappedHandlers, options \in AuthOptions,
          ss \in ServerSessions : CallWithAuth(p, handler, options, ss)
    \/ \E p \in Readers, handler \in WrappedHandlers, ss \in ServerSessions :
          CallWithAdminAuth(p, handler, ss)

SpecAuth == Init /\ [][NextAuth]_vars

\* ================================================================= claims
LearnerSessions(In) == {s \in In.sessions : s.role = "learner"}
AdminSessions(In) == {s \in In.sessions : s.role = "admin"}

\* the minutes of all the records of enrollment e
TotalMinutes(e) == SumMinutes(learning_records, RecordsOf(learning_records, e))

\* C1: every enrollment whose status is completed has progressPercentage = 100
\* and completedAt not null, in every reachable state.
C1_CompletedIsFull ==
    \A e \in EnrollmentRows :
        enrollments[e].status = "completed" =>
            /\ enrollments[e].progress_percentage = MaxPercentage
            /\ enrollments[e].completed_at # NULL

\* C2: every enrollment whose status is assigned has startedAt = null, in
\* every reachable state.
C2_AssignedNotStarted ==
    \A e \in EnrollmentRows :
        enrollments[e].status = "assigned" => enrollments[e].started_at = NULL

\* C3: after any sequence of record creates, updates and deletes run one at a
\* time, the record with the greatest sessionStartTime of an enrollment stores
\* the sum of the durations of all the records of that enrollment.
C3_LatestStoresTotal ==
    \A e \in EnrollmentRows :
        RecordsOf(learning_records, e) # {} =>
            \E r \in LatestRecords(learning_records, e) :
                learning_records[r].cumulative_learning_minutes = TotalMinutes(e)

\* C5: a learner who owns an assigned enrollment and asks for status =
\* completed with progressPercentage = 100 gets an error, and the enrollment
\* is left as it was.
C5_IllegalJumpRejected ==
    \A s \in LearnerSessions(LifecycleInputs), e \in EnrollmentRows,
       req \in EnrollmentUpdateRequests(LifecycleInputs) :
        ( /\ enrollments[e].learner_id = s.id
          /\ enrollments[e].status = "assigned"
          /\ Has(req, "status") /\ req.status = "completed"
          /\ Has(req, "progress_percentage")
          /\ req.progress_percentage = MaxPercentage )
        => /\ PutEnrollmentHandler(s, e, req).status >= 400
           /\ PutEnrollmentHandler(s, e, req).enrollments = enrollments

\* C6: no single operation of a learner (enrollment update, record create,
\* record update) takes an enrollment from assigned to completed.
C6_NoDirectCompletion ==
    \A s \in LearnerSessions(LifecycleInputs), e \in EnrollmentRows :
        enrollments[e].status = "assigned" =>
            /\ \A req \in EnrollmentUpdateRequests(LifecycleInputs) :
                 PutEnrollmentHandler(s, e, req).enrollments[e].status # "completed"
            /\ \A req \in RecordCreateRequests(LifecycleInputs) :
                 RecordRows # RecordIds =>
                 PostLearningRecordHandler(s, req).enrollments[e].status # "completed"
            /\ \A r \in RecordIds, req \in RecordUpdateRequests(LifecycleInputs) :
                 PutLearningRecordHandler(s, r, req).enrollments[e].status # "completed"

\* C7: once an enrollment is completed or cancelled, no operation of a learner
\* (enrollment update, record create, update or delete) changes its status.
C7_TerminalForLearners ==
    \A s \in LearnerSessions(LifecycleInputs), e \in EnrollmentRows :
        enrollments[e].status \in {"completed", "cancelled"} =>
            /\ \A req \in EnrollmentUpdateRequests(LifecycleInputs) :
                 PutEnrollmentHandler(s, e, req).enrollments[e].status
                     = enrollments[e].status
            /\ \A req \in RecordCreateRequests(LifecycleInputs) :
                 RecordRows # RecordIds =>
                 PostLearningRecordHandler(s, req).enrollments[e].status
                     = enrollments[e].status
            /\ \A r \in RecordIds, req \in RecordUpdateRequests(LifecycleInputs) :
                 PutLearningRecordHandler(s, r, req).enrollments[e].status
                     = enrollments[e].status
            /\ \A r \in RecordIds : \A latest \in LatestAfterDelete(r) :
                 DeleteLearningRecordHandler(s, r, latest).enrollments[e].status
                     = enrollments[e].status

\* C4: two record creates on the same enrollment that both read the sibling
\* records before either inserts leave, once both are done, no record of the
\* enrollment storing the sum of all its records' durations (lost update).
BothReadBeforeEitherInserted(p, q) ==
    /\ p # q
    /\ proc[p].pc = "done" /\ proc[p].status = 201
    /\ proc[q].pc = "done" /\ proc[q].status = 201
    /\ proc[p].validatedData.enrollment_id = proc[q].validatedData.enrollment_id
    /\ proc[p].newLearningRecord \notin proc[q].existingRecords
    /\ proc[q].newLearningRecord \notin proc[p].existingRecords
    /\ Has(proc[p].validatedData, "session_duration_minutes")
    /\ Has(proc[q].validatedData, "session_duration_minutes")

C4_LostUpdate ==
    \A p, q \in Procs :
        BothReadBeforeEitherInserted(p, q) =>
            \A r \in proc[p].existingRecords \cup proc[q].existingRecords
                       \cup {proc[p].newLearningRecord, proc[q].newLearningRecord} :
                learning_records[r].cumulative_learning_minutes
                    < TotalMinutes(proc[p].validatedData.enrollment_id)

C4_Witness ==
    \E p, q \in Procs :
        /\ BothReadBeforeEitherInserted(p, q)
        /\ \A r \in RecordsOf(learning_records, proc[p].validatedData.enrollment_id) :
              learning_records[r].cumulative_learning_minutes
                  # TotalMinutes(proc[p].validatedData.enrollment_id)

\* C8: an update or delete of a record by its owning learner is rejected, the
\* tables unchanged, when the record was created on another calendar day; the
\* same update or delete by an admin succeeds whatever the creation day.
C8_StaleEditWindow ==
    \A r \in RecordRows :
        /\ \A s \in LearnerSessions(WindowInputs) :
             ( /\ s.id = learning_records[r].learner_id
               /\ DateOf(learning_records[r].created_at) # DateOf(now) )
             => /\ \A req \in RecordUpdateRequests(WindowInputs) :
                     PutLearningRecordHandler(s, r, req) = Reject(400)
                /\ \A latest \in LatestAfterDelete(r) :
                     DeleteLearningRecordHandler(s, r, latest) = Reject(400)
        /\ \A s \in AdminSessions(WindowInputs) :
             /\ \A req \in RecordUpdateRequests(WindowInputs) :
                  LET out == PutLearningRecordHandler(s, r, req) IN
                  /\ out.status = 200
                  /\ Has(req, "session_duration_minutes") =>
                       out.learning_records[r].session_duration_minutes
                           = req.session_duration_minutes
             /\ \A latest \in LatestAfterDelete(r) :
                  LET out == DeleteLearningRecordHandler(s, r, latest) IN
                  /\ out.status = 200
                  /\ out.learning_records[r] = NoRow

C8_Witness ==
    \E r \in RecordRows :
        /\ DateOf(learning_records[r].created_at) # DateOf(now)
        /\ \E s \in LearnerSessions(WindowInputs) : s.id = learning_records[r].learner_id
        /\ AdminSessions(WindowInputs) # {}

\* C9: a record created with duration d and progress p < 100 on an assigned
\* enrollment of an active course stores cumulativeLearningMinutes = (sum of
\* the durations of the enrollment's existing records) + d and leaves the
\* enrollment in_progress, startedAt set, progressPercentage = p.
CanCreateOn(s, req, status) ==
    /\ RecordRows # RecordIds
    /\ isAdmin(s) \/ s.id = req.learner_id
    /\ req.enrollment_id \in EnrollmentRows
    /\ enrollments[req.enrollment_id].learner_id = req.learner_id
    /\ enrollments[req.enrollment_id].course_id = req.course_id
    /\ enrollments[req.enrollment_id].status = status
    /\ req.course_id \in CourseIds
    /\ courses[req.course_id].is_active

C9_FirstRecordStarts ==
    \A s \in RecordInputs.sessions, req \in RecordCreateRequests(RecordInputs) :
        ( /\ CanCreateOn(s, req, "assigned")
          /\ Has(req, "session_duration_minutes")
          /\ Has(req, "progress_percentage")
          /\ req.progress_percentage < MaxPercentage )
        => LET out == PostLearningRecordHandler(s, req)
               new == FreshId(learning_records)
               e == req.enrollment_id
           IN /\ out.status = 201
              /\ out.learning_records[new].enrollment_id = e
              /\ out.learning_records[new].cumulative_learning_minutes
                    = TotalMinutes(e) + req.session_duration_minutes
              /\ out.enrollments[e].status = "in_progress"
              /\ out.enrollments[e].started_at # NULL
              /\ out.enrollments[e].progress_percentage = req.progress_percentage

C9_Witness ==
    \E s \in RecordInputs.sessions, req \in RecordCreateRequests(RecordInputs) :
        /\ CanCreateOn(s, req, "assigned")
        /\ Has(req, "session_duration_minutes")
        /\ Has(req, "progress_percentage")
        /\ req.progress_percentage < MaxPercentage
        /\ TotalMinutes(req.enrollment_id) > 0
        /\ PostLearningRecordHandler(s, req).enrollments[req.enrollment_id].status
              = "in_progress"

\* C10: a record created with progress 100 on an in_progress enrollment stores
\* cumulativeLearningMinutes = (sum of existing durations) + its own duration
\* and leaves the enrollment completed, completedAt set, progressPercentage = 100.
OwnMinutes(req) ==
    IF Has(req, "session_duration_minutes") THEN req.session_duration_minutes ELSE 0

C10_FullProgressCompletes ==
    \A s \in RecordInputs.sessions, req \in RecordCreateRequests(RecordInputs) :
        ( /\ CanCreateOn(s, req, "in_progress")
          /\ ~Has(req, "session_end_time")
          /\ Has(req, "progress_percentage")
          /\ req.progress_percentage = MaxPercentage )
        => LET out == PostLearningRecordHandler(s, req)
               new == FreshId(learning_records)
               e == req.enrollment_id
           IN /\ out.status = 201
              /\ out.learning_records[new].enrollment_id = e
              /\ out.learning_records[new].cumulative_learning_minutes
                    = TotalMinutes(e) + OwnMinutes(req)
              /\ out.enrollments[e].status = "completed"
              /\ out.enrollments[e].completed_at # NULL
              /\ out.enrollments[e].progress_percentage = MaxPercentage

C10_Witness ==
    \E s \in RecordInputs.sessions, req \in RecordCreateRequests(RecordInputs) :
        /\ CanCreateOn(s, req, "in_progress")
        /\ Has(req, "session_duration_minutes")
        /\ Has(req, "progress_percentage")
        /\ req.progress_percentage = MaxPercentage
        /\ TotalMinutes(req.enrollment_id) > 0
        /\ PostLearningRecordHandler(s, req).enrollments[req.enrollment_id].status
              = "completed"
\* C11: DELETE of an enrollment removes it only when the actor is an admin and
\* no learning record references it; with a dependent record an admin gets 409
\* and the enrollment and its records remain; a learner gets 403 and nothing
\* is deleted.
C11_DeleteEnrollmentGuarded ==
    \A s \in GuardInputs.sessions, e \in EnrollmentRows :
        LET out == DeleteEnrollmentHandler(s, e) IN
        /\ out.enrollments[e] = NoRow =>
              isAdmin(s) /\ RecordsOf(learning_records, e) = {}
        /\ (isAdmin(s) /\ RecordsOf(learning_records, e) # {}) => out = Reject(409)
        /\ ~isAdmin(s) => out = Reject(403)
        /\ out.learning_records = learning_records

C11_Witness ==
    \E s \in AdminSessions(GuardInputs), e, f \in EnrollmentRows :
        /\ RecordsOf(learning_records, e) # {}
        /\ DeleteEnrollmentHandler(s, e) = Reject(409)
        /\ RecordsOf(learning_records, f) = {}
        /\ DeleteEnrollmentHandler(s, f).enrollments[f] = NoRow
        /\ LearnerSessions(GuardInputs) # {}
\* C12: at most one enrollment exists per (learner, course) pair in every
\* reachable state, also when two creates for the same pair both pass the
\* duplicate check before either inserts.
C12_OneEnrollmentPerPair ==
    \A e, f \in EnrollmentRows :
        ( /\ enrollments[e].learner_id = enrollments[f].learner_id
          /\ enrollments[e].course_id = enrollments[f].course_id )
        => e = f
\* C13: a record create that carries a progress is all-or-nothing with its
\* enrollment update: the step that ends the request after the record was
\* inserted either leaves the enrollment with the progress of the request, or
\* leaves no inserted record and reports an error.
C13_RecordAndEnrollmentTogether ==
    [][\A p \in Procs :
          (proc[p].pc = "update" /\ proc'[p].pc = "done") =>
              \/ /\ proc'[p].status = 201
                 /\ enrollments'[proc[p].validatedData.enrollment_id].progress_percentage
                       = proc[p].validatedData.progress_percentage
              \/ /\ proc'[p].status >= 400
                 /\ learning_records'[proc[p].newLearningRecord] = NoRow]_vars
\* C14: with no sessionDurationMinutes and a sessionEndTime earlier than the
\* sessionStartTime, a record create and a record update are rejected and
\* write nothing; no stored record has a negative session_duration_minutes.
C14_NoNegativeDuration ==
    /\ \A r \in RecordRows :
          learning_records[r].session_duration_minutes # NULL =>
              learning_records[r].session_duration_minutes >= 0
    /\ \A s \in DurationInputs.sessions, req \in RecordCreateRequests(DurationInputs) :
          ( /\ RecordRows # RecordIds
            /\ ~Has(req, "session_duration_minutes")
            /\ Has(req, "session_end_time")
            /\ req.session_end_time < req.session_start_time )
          => LET out == PostLearningRecordHandler(s, req)
             IN out.status >= 400 /\ out = Reject(out.status)
    /\ \A s \in DurationInputs.sessions, r \in RecordRows,
          req \in RecordUpdateRequests(DurationInputs) :
          ( /\ ~Has(req, "session_duration_minutes")
            /\ Has(req, "session_end_time")
            /\ req.session_end_time < learning_records[r].session_start_time )
          => LET out == PutLearningRecordHandler(s, r, req)
             IN out.status >= 400 /\ out = Reject(out.status)
\* C15: a learner creates, updates or deletes a learning record only when the
\* record's learner_id is the learner's own id; a request on another learner's
\* record gets 403 and leaves every record and enrollment unchanged; an admin
\* is never refused for the learner_id.
C15_OwnRecordsOnly ==
    /\ \A s \in LearnerSessions(GuardInputs) :
          /\ \A req \in RecordCreateRequests(GuardInputs) :
                req.learner_id # s.id =>
                    PostLearningRecordHandler(s, req) = Reject(403)
          /\ \A r \in RecordRows :
                learning_records[r].learner_id # s.id =>
                    /\ \A req \in RecordUpdateRequests(GuardInputs) :
                          PutLearningRecordHandler(s, r, req) = Reject(403)
                    /\ \A latest \in LatestAfterDelete(r) :
                          DeleteLearningRecordHandler(s, r, latest) = Reject(403)
    /\ \A s \in AdminSessions(GuardInputs) :
          /\ \A req \in RecordCreateRequests(GuardInputs) :
                RecordRows # RecordIds =>
                    PostLearningRecordHandler(s, req).status # 403
          /\ \A r \in RecordRows :
                /\ \A req \in RecordUpdateRequests(GuardInputs) :
                      PutLearningRecordHandler(s, r, req).status = 200
                /\ \A latest \in LatestAfterDelete(r) :
                      DeleteLearningRecordHandler(s, r, latest).status = 200

C15_Witness ==
    \E s \in LearnerSessions(GuardInputs), a \in AdminSessions(GuardInputs),
       r \in RecordRows, req \in RecordUpdateRequests(GuardInputs) :
        /\ learning_records[r].learner_id # s.id
        /\ Has(req, "progress_percentage")
        /\ PutLearningRecordHandler(s, r, req) = Reject(403)
        /\ PutLearningRecordHandler(a, r, req).status = 200
        /\ PutLearningRecordHandler(a, r, req).enrollments # enrollments
        /\ RecordRows # RecordIds
\* C16: canAccessResource returns true for every admin session, returns
\* (session id = resourceUserId) for every learner session, and returns false
\* when nobody is signed in.
C16_CanAccessResource ==
    \A p \in Procs :
        (proc[p].pc = "returned" /\ proc[p].fn = "canAccessResource") =>
            LET c == proc[p]
                currentSession == IF c.session # NoSession THEN c.session
                                  ELSE c.serverSession
            IN /\ currentSession = NoSession => c.result = FALSE
               /\ (currentSession # NoSession /\ currentSession.role = "admin")
                     => c.result = TRUE
               /\ (currentSession # NoSession /\ currentSession.role = "learner")
                     => c.result = (currentSession.id = c.resourceUserId)

C16_Witness ==
    \E p, q \in Procs :
        /\ proc[p].pc = "returned" /\ proc[p].fn = "canAccessResource"
        /\ proc[p].session # NoSession /\ proc[p].session.role = "learner"
        /\ proc[p].session.id # proc[p].resourceUserId
        /\ proc[p].result = FALSE
        /\ proc[q].pc = "returned" /\ proc[q].fn = "canAccessResource"
        /\ proc[q].session # NoSession /\ proc[q].session.role = "admin"
        /\ proc[q].result = TRUE
\* C17: canAccessCourse returns true for every admin; for a learner it returns
\* true exactly when an enrollment of that learner in that course exists in
\* the store; it returns false when the enrollment lookup fails.
C17_CanAccessCourse ==
    [][\A p \in Procs :
          ( /\ proc'[p] # proc[p]
            /\ proc'[p].pc = "returned"
            /\ proc'[p].fn = "canAccessCourse" ) =>
              LET c == proc'[p]
                  currentSession == IF c.session # NoSession THEN c.session
                                    ELSE c.serverSession
              IN IF currentSession = NoSession THEN c.result = FALSE
                 ELSE IF currentSession.role = "admin" THEN c.result = TRUE
                 ELSE IF c.lookup # "ok" THEN c.result = FALSE
                 ELSE c.result =
                        (\E e \in EnrollmentRows :
                            /\ enrollments[e].learner_id = currentSession.id
                            /\ enrollments[e].course_id = c.courseId)]_vars
\* C18: a record create fails, inserting no record and leaving the enrollments
\* unchanged, whenever the referenced enrollment is cancelled, the referenced
\* course is missing or inactive, or no enrollment has the (enrollment id,
\* learner id, course id) of the request.
RefersToNothing(req) ==
    \/ req.enrollment_id \notin EnrollmentRows
    \/ enrollments[req.enrollment_id].learner_id # req.learner_id
    \/ enrollments[req.enrollment_id].course_id # req.course_id

C18_CreateRecordGuards ==
    \A s \in GuardInputs.sessions, req \in RecordCreateRequests(GuardInputs) :
        ( /\ RecordRows # RecordIds
          /\ \/ RefersToNothing(req)
             \/ enrollments[req.enrollment_id].status = "cancelled"
             \/ req.course_id \notin CourseIds
             \/ ~courses[req.course_id].is_active )
        => LET out == PostLearningRecordHandler(s, req)
           IN out.status >= 400 /\ out = Reject(out.status)

C18_Witness ==
    \E s \in GuardInputs.sessions, req, other \in RecordCreateRequests(GuardInputs) :
        /\ RecordRows # RecordIds
        /\ ~RefersToNothing(req)
        /\ enrollments[req.enrollment_id].status = "cancelled"
        /\ courses[req.course_id].is_active
        /\ PostLearningRecordHandler(s, req) = Reject(400)
        /\ ~RefersToNothing(other)
        /\ enrollments[other.enrollment_id].status # "cancelled"
        /\ PostLearningRecordHandler(s, other).status = 201
\* C19: POST /api/enrollments inserts an enrollment only if the actor is an
\* admin, the target user exists with role learner, the course exists and is
\* active, and no enrollment of the (learner, course) pair exists; in every
\* other case it returns an error and the enrollments are unchanged.
MayEnroll(s, req) ==
    /\ s.role = "admin"
    /\ req.learner_id \in Learners
    /\ req.course_id \in CourseIds
    /\ courses[req.course_id].is_active
    /\ ~\E e \in EnrollmentRows :
          /\ enrollments[e].learner_id = req.learner_id
          /\ enrollments[e].course_id = req.course_id

OwnView(table, u) ==
    [i \in DOMAIN table |->
        IF table[i] # NoRow /\ table[i].learner_id = u THEN table[i] ELSE NoRow]

OnlyRowsOf(response, u) == \A d \in response.data : d.row.learner_id = u

C20_LearnerReadsOwnRows ==
    /\ \A p \in Readers :
          (proc[p].pc = "returned" /\ proc[p].session.role = "learner") =>
              OnlyRowsOf(proc[p].response, proc[p].session.id)
    /\ \A s \in LearnerSessions([sessions |-> ReadInputs.readSessions]) :
          /\ \A q \in RecordListQueries(ReadInputs) :
                LET response == GetLearningRecords(s, q, learning_records, enrollments)
                IN /\ OnlyRowsOf(response, s.id)
                   /\ response = GetLearningRecords(s, q,
                                     OwnView(learning_records, s.id),
                                     OwnView(enrollments, s.id))
          /\ \A q \in EnrollmentListQueries(ReadInputs) :
                LET response == GetEnrollments(s, q, enrollments)
                IN /\ OnlyRowsOf(response, s.id)
                   /\ response = GetEnrollments(s, q, OwnView(enrollments, s.id))
          /\ \A e \in EnrollmentIds :
                LET response == GetEnrollment(s, e, enrollments)
                IN /\ OnlyRowsOf(response, s.id)
                   /\ response = GetEnrollment(s, e, OwnView(enrollments, s.id))

C20_Witness ==
    \E p \in Readers, r, q \in RecordRows :
        /\ proc[p].pc = "returned"
        /\ proc[p].fn = "GET /api/learning-records"
        /\ proc[p].session.role = "learner"
        /\ Has(proc[p].request, "learner_id")
        /\ proc[p].request.learner_id # proc[p].session.id
        /\ proc[p].response = GetLearningRecords(proc[p].session, proc[p].request,
                                                 learning_records, enrollments)
        /\ learning_records[r].learner_id = proc[p].session.id
        /\ learning_records[q].learner_id = proc[p].request.learner_id
        /\ proc[p].response.data = {}
\* C21: after a successful delete of a record that leaves at least one record
\* on the enrollment, the remaining record with the greatest sessionStartTime
\* stores the sum of the durations of all the remaining records, whatever the
\* duration of the deleted record (null and 0 included) and of the others.
C21_DeleteRewritesTotal ==
    [][\A r \in RecordRows :
          LET e == learning_records[r].enrollment_id IN
          ( /\ learning_records'[r] = NoRow
            /\ RecordsOf(learning_records', e) # {} )
          => \E latest \in LatestRecords(learning_records', e) :
                learning_records'[latest].cumulative_learning_minutes
                    = SumMinutes(learning_records', RecordsOf(learning_records', e))]_vars

\* C22: an update that changes a record's duration to a new value d' stores
\* cumulativeLearningMinutes = (sum of the durations of the other records of
\* the enrollment) + d' on that record; an update that does not change the
\* duration leaves the record's cumulativeLearningMinutes as it was.
OtherMinutes(r) ==
    SumMinutes(learning_records,
               RecordsOf(learning_records, learning_records[r].enrollment_id) \ {r})

C22_UpdateRecomputesCumulative ==
    \A s \in DurationInputs.sessions, r \in RecordRows,
       req \in RecordUpdateRequests(DurationInputs) :
        LET out == PutLearningRecordHandler(s, r, req)
            old == learning_records[r]
            new == out.learning_records[r]
        IN out.status = 200
           => /\ new.session_duration_minutes # old.session_duration_minutes
                 => new.cumulative_learning_minutes
                       = OtherMinutes(r) + new.session_duration_minutes
              /\ new.session_duration_minutes = old.session_duration_minutes
                 => new.cumulative_learning_minutes = old.cumulative_learning_minutes

C22_Witness ==
    \E s \in DurationInputs.sessions, r \in RecordRows,
       req \in RecordUpdateRequests(DurationInputs) :
        LET out == PutLearningRecordHandler(s, r, req)
            old == learning_records[r]
            new == out.learning_records[r]
        IN /\ out.status = 200
           /\ OtherMinutes(r) > 0
           /\ new.session_duration_minutes # old.session_duration_minutes
           /\ new.cumulative_learning_minutes # old.cumulative_learning_minutes
           /\ new.cumulative_learning_minutes
                 = OtherMinutes(r) + new.session_duration_minutes

\* C23: for every enrollment state and every progressPercentage p, a record
\* update carrying p changes the enrollment's status, progressPercentage,
\* startedAt and completedAt exactly as a record create carrying p would; on
\* an assigned enrollment it moves the status to in_progress and sets startedAt.
LifecycleColumns(row) ==
    [status |-> row.status, progress_percentage |-> row.progress_percentage,
     started_at |-> row.started_at, completed_at |-> row.completed_at]

C23_UpdateProgressLikeCreate ==
    \A r \in RecordRows, p \in RecordInputs.progress :
        LET e == learning_records[r].enrollment_id
            out == PutLearningRecordHandler([id |-> "adm", role |-> "admin"], r,
                                            "progress_percentage" :> p)
        IN (e \in EnrollmentRows /\ out.status = 200)
           => /\ LifecycleColumns(out.enrollments[e])
                    = LifecycleColumns(
                          Updated(enrollments[e],
                                  ProgressUpdateOnCreate(enrollments[e].status, p, now)))
              /\ enrollments[e].status = "assigned"
                 => /\ out.enrollments[e].status # "assigned"
                    /\ out.enrollments[e].started_at # NULL

\* C24: in every reachable state, every enrollment whose status is in_progress
\* or completed has startedAt not null.
C24_StartedWhenUnderWay ==
    \A e \in EnrollmentRows :
        enrollments[e].status \in {"in_progress", "completed"}
        => enrollments[e].started_at # NULL

\* C25: the first successful record create on an assigned enrollment moves it
\* to in_progress with startedAt set, with or without a progressPercentage on
\* the record; hence no enrollment in status assigned has a learning record.
C25_AssignedHasNoRecords ==
    /\ \A s \in RecordInputs.sessions, req \in RecordCreateRequests(RecordInputs) :
          LET out == PostLearningRecordHandler(s, req)
              e == req.enrollment_id
          IN ( /\ RecordRows # RecordIds
               /\ e \in EnrollmentRows
               /\ enrollments[e].status = "assigned"
               /\ RecordsOf(learning_records, e) = {}
               /\ out.status = 201 )
             => /\ out.enrollments[e].status = "in_progress"
                /\ out.enrollments[e].started_at # NULL
    /\ \A e \in EnrollmentRows :
          enrollments[e].status = "assigned" => RecordsOf(learning_records, e) = {}

\* C26: every learning record references an existing enrollment in every
\* reachable state, also when an enrollment delete (dependent-record check,
\* then delete) runs concurrently with a record create (enrollment lookup,
\* then insert) on the same enrollment.
C26_RecordsReferenceEnrollments ==
    \A r \in RecordRows : learning_records[r].enrollment_id \in EnrollmentRows

C26_Witness ==
    \E p, q \in Procs :
        /\ p # q
        /\ proc[p].pc = "done" /\ proc[q].pc = "done"
        /\ "enrollmentId" \in DOMAIN proc[p]
        /\ "validatedData" \in DOMAIN proc[q]
        /\ proc[q].validatedData.enrollment_id = proc[p].enrollmentId
        /\ proc[p].status = 200
        /\ proc[q].status = 500

\* C27: after two record creates carrying a progress, one of them 100, have
\* run concurrently on the same assigned enrollment, each deciding from the
\* status it read before either wrote, the enrollment has completedAt set
\* exactly when its status is completed, and when completed its progress is 100.
BothCreatedOn(e) ==
    /\ \A p \in Procs :
          /\ proc[p].pc = "done" /\ proc[p].status = 201
          /\ proc[p].validatedData.enrollment_id = e
          /\ Has(proc[p].validatedData, "progress_percentage")
          /\ proc[p].enrollment.status = "assigned"
    /\ \E p \in Procs : proc[p].validatedData.progress_percentage = MaxPercentage

C27_RaceKeepsCompletionConsistent ==
    \A e \in EnrollmentRows :
        BothCreatedOn(e)
        => /\ enrollments[e].completed_at # NULL <=> enrollments[e].status = "completed"
           /\ enrollments[e].status = "completed"
              => enrollments[e].progress_percentage = MaxPercentage

\* C28: every enrollment a successful enrollment create produces starts in
\* status assigned with startedAt and completedAt unset, whatever status the
\* create request supplies.
C28_CreatedEnrollmentIsAssigned ==
    [][\A e \in EnrollmentIds :
          (enrollments[e] = NoRow /\ enrollments'[e] # NoRow)
          => /\ enrollments'[e].status = "assigned"
             /\ enrollments'[e].started_at = NULL
             /\ enrollments'[e].completed_at = NULL]_vars

\* C29: starting from enrollments created in status assigned, under any
\* sequence of learner operations run one at a time (enrollment update, record
\* create, update and delete; no admin update), every enrollment with
\* completedAt set has status completed.
C29_CompletedAtMeansCompleted ==
    \A e \in EnrollmentRows :
        enrollments[e].completed_at # NULL => enrollments[e].status = "completed"

C29_Witness ==
    \E e \in EnrollmentRows :
        /\ enrollments[e].completed_at # NULL
        /\ enrollments[e].status = "completed"
        /\ enrollments[e].progress_percentage # MaxPercentage
        /\ RecordsOf(learning_records, e) # {}

\* C30: withAuth never calls the wrapped handler without an authenticated
\* session: with no session user it answers 401, with a required role the
\* session does not have it answers 403, in both cases without running the
\* handler and with the store unchanged; a handler that throws is answered 500.
\* withAdminAuth does the same with the admin role required.
Guarded(response, status) ==
    /\ response.status = status
    /\ ~response.invoked
    /\ response.enrollments = enrollments
    /\ response.learning_records = learning_records

C30_WithAuthGuardsHandler ==
    \A handler \in WrappedHandlers, ss \in ServerSessions :
        /\ \A options \in AuthOptions :
              LET response == withAuth(handler, options, ss) IN
              /\ response.invoked => ss \in Sessions
              /\ ss = NoSession => Guarded(response, 401)
              /\ ( /\ ss \in Sessions
                   /\ Has(options, "requireRole")
                   /\ ss.role # options.requireRole ) => Guarded(response, 403)
              /\ (response.invoked /\ handler[ss] = Thrown) => response.status = 500
              /\ ( /\ ss \in Sessions
                   /\ Has(options, "requireRole") => ss.role = options.requireRole )
                 => response.invoked
        /\ LET response == withAdminAuth(handler, ss) IN
           /\ response.invoked => (ss \in Sessions /\ ss.role = "admin")
           /\ ss = NoSession => Guarded(response, 401)
           /\ (ss \in Sessions /\ ss.role # "admin") => Guarded(response, 403)
           /\ (response.invoked /\ handler[ss] = Thrown) => response.status = 500

C30_Witness ==
    /\ EnrollmentRows # {}
    /\ \E p \in Readers :
          /\ proc[p].pc = "returned"
          /\ proc[p].fn = "withAuth"
          /\ proc[p].serverSession \in Sessions
          /\ Has(proc[p].options, "requireRole")
          /\ proc[p].status = 403
          /\ ~proc[p].invoked
====
